---- MODULE Spec2Model ----
(***************************************************************************)
(* Smart-SoF frontend: the document-submission controller (FileUpload.jsx) *)
(* and the in-memory result store (ResultsTable.jsx), wired by the routes  *)
(* of App.js and the links of Navbar.jsx.                                  *)
(*                                                                         *)
(* Strings that the code takes apart (file names) are sequences of         *)
(* one-character strings; messages are sequences of string fragments.      *)
(* A JS object is a sequence of <<key, value>> pairs, so that key order    *)
(* (Object.keys) is part of the value.  null / undefined of an object-     *)
(* valued field is the empty sequence, a present value v is <<v>>.         *)
(***************************************************************************)
EXTENDS Integers, Sequences, FiniteSets, TLC

VARIABLES
  user,             \* App.js: whether user holds a mock user (its email and
                    \* picture are only displayed)
  route,            \* BrowserRouter: location.pathname
  locState,         \* BrowserRouter: location.state (<<>> or <<[processedData |-> ...]>>)
  sofFile,          \* FileUpload: the three slots (a file name, or NoFile)
  cpFile,
  additionalFile,
  loading,          \* FileUpload: loading
  error,            \* FileUpload: error
  inflight,         \* fetch() calls not yet answered: how many were sent by the
                    \* mounted FileUpload (live), how many by one unmounted since
  tableData,        \* ResultsTable: tableData
  editDialogOpen,
  deleteDialogOpen,
  currentRowToEdit, \* <<>> for null, <<row>> otherwise
  currentEditedRow, \* an object; {} is <<>>
  rowToDeleteId,    \* an id, or NullId
  output            \* what the latest step gave to the world outside the pages:
                    \* a request body, a downloaded file, an alert, or nothing

appVars    == <<user, route, locState>>
uploadVars == <<sofFile, cpFile, additionalFile, loading, error>>
netVars    == <<inflight>>
tableVars  == <<tableData, editDialogOpen, deleteDialogOpen,
                currentRowToEdit, currentEditedRow, rowToDeleteId>>
vars       == <<appVars, uploadVars, netVars, tableVars, output>>

----------------------------------------------------------------------------
(* Bounds of the model *)

\* requests in flight at one time
MaxInFlight == 2
\* records in one processed_data array of narrow records
MaxRecords == 3
\* records in one processed_data array of wide records
MaxWideRecords == 2

----------------------------------------------------------------------------
(* Strings *)

\* the characters of the string literals the code compares file extensions to
Spell(w) ==
  CASE w = "pdf"  -> <<"p", "d", "f">>
    [] w = "docx" -> <<"d", "o", "c", "x">>
    [] w = "txt"  -> <<"t", "x", "t">>

\* String.prototype.toLowerCase, on one character
LowerChar(c) ==
  CASE c = "P" -> "p"
    [] c = "D" -> "d"
    [] c = "F" -> "f"
    [] c = "O" -> "o"
    [] c = "C" -> "c"
    [] c = "X" -> "x"
    [] c = "T" -> "t"
    [] c = "N" -> "n"
    [] c = "G" -> "g"
    [] OTHER   -> c

toLowerCase(s) == [i \in 1..Len(s) |-> LowerChar(s[i])]

\* name.split('.') followed by [length - 1]: the text after the last dot,
\* the whole name when it has no dot
LastSegment(s) ==
  LET dots == {i \in 1..Len(s) : s[i] = "."}
  IN  IF dots = {} THEN s
      ELSE LET d == CHOOSE i \in dots : \A j \in dots : j <= i
           IN  SubSeq(s, d + 1, Len(s))

\* Array.prototype.join
RECURSIVE join(_, _)
join(arr, sep) ==
  IF Len(arr) = 0 THEN <<>>
  ELSE IF Len(arr) = 1 THEN <<arr[1]>>
  ELSE <<arr[1], sep>> \o join(Tail(arr), sep)

\* allowedTypes.includes(fileExtension)
includes(allowedTypes, fileExtension) ==
  \E i \in 1..Len(allowedTypes) : Spell(allowedTypes[i]) = fileExtension

----------------------------------------------------------------------------
(* Files the user can pick *)

NoFile == <<>>

Files == {
  <<"a", ".", "p", "d", "f">>,                 \* a.pdf
  <<"b", ".", "p", "n", "g", ".", "D", "o", "c", "X">>, \* b.png.DocX
  <<"c", ".", "t", "x", "t">>,                 \* c.txt
  <<"d", ".", "p", "d", "f", ".", "p", "n", "g">>,      \* d.pdf.png
  <<"p", "d", "f">>,                           \* pdf (no dot)
  <<"e", ".", "p", "d", "f", ".">>,            \* e.pdf. (empty last segment)
  <<"f", "p", "d", "f">>                       \* fpdf (no dot)
}

Slots == {"sof", "cp", "additional"}

\* the allow-list each file input passes to handleFileChange
AllowedTypes(slot) ==
  CASE slot = "sof"        -> <<"pdf", "docx">>
    [] slot = "cp"         -> <<"pdf", "docx">>
    [] slot = "additional" -> <<"docx", "txt", "pdf">>

SlotFile(slot) ==
  CASE slot = "sof"        -> sofFile
    [] slot = "cp"         -> cpFile
    [] slot = "additional" -> additionalFile

\* the useState setter of a slot
setter(slot, v) ==
  CASE slot = "sof"        -> sofFile' = v /\ UNCHANGED <<cpFile, additionalFile>>
    [] slot = "cp"         -> cpFile' = v /\ UNCHANGED <<sofFile, additionalFile>>
    [] slot = "additional" -> additionalFile' = v /\ UNCHANGED <<sofFile, cpFile>>

----------------------------------------------------------------------------
(* Messages *)

NoError == <<>>

MissingRequiredFileMsg ==
  <<"Please upload the Statement of Facts document (SOF).">>

InvalidTypeMsg(allowedTypes) ==
  <<"Invalid file type for this slot. Allowed: ">> \o join(allowedTypes, ", ")

FailedMsg(message) == <<"Failed to process documents: ">> \o message

----------------------------------------------------------------------------
(* Objects (records of the extraction service, the edit buffer) *)

Undefined == "undefined"
NullId    == "null"
NoUser    == FALSE

Keys(obj) == [i \in 1..Len(obj) |-> obj[i][1]]

Has(obj, key) == \E i \in 1..Len(obj) : obj[i][1] = key

\* obj[key], undefined when the object has no such property
Get(obj, key) ==
  IF Has(obj, key)
  THEN obj[CHOOSE i \in 1..Len(obj) : obj[i][1] = key][2]
  ELSE Undefined

\* { ...obj, [key]: value }: an existing property keeps its place, a new one
\* goes last
Put(obj, key, value) ==
  IF Has(obj, key)
  THEN [i \in 1..Len(obj) |-> IF obj[i][1] = key THEN <<key, value>> ELSE obj[i]]
  ELSE Append(obj, <<key, value>>)

----------------------------------------------------------------------------
(* What the extraction service can answer *)

IdNames == <<"1", "2", "3", "4", "5">>
Ids     == {IdNames[i] : i \in 1..MaxRecords}

\* field orders of the records of one answer: id first, id in the middle
Narrow == <<"id", "event">>
Wide   == <<"event", "id", "time">>

MkRecord(schema, id) ==
  [i \in 1..Len(schema) |->
     <<schema[i], IF schema[i] = "id" THEN id ELSE "a">>]

\* The record arrays: unique ids, one schema per array (spec section 3).
\* Narrow records with ids 1, 2, ..., wide records with ids MaxRecords,
\* MaxRecords - 1, ...
RecordArrays ==
  {[i \in 1..n |-> MkRecord(Narrow, IdNames[i])] : n \in 0..MaxRecords}
  \cup {[i \in 1..n |-> MkRecord(Wide, IdNames[MaxRecords + 1 - i])]
          : n \in 0..MaxWideRecords}

\* the field names of the answers other than id: the names a TextField of the
\* edit dialog can have
FieldNames == {"event", "time"}

\* text typed into a field of the edit dialog
EditValues == {"a", "x"}

Statuses == {"422", "500"}

statusText(status) ==
  CASE status = "422" -> "Unprocessable Entity"
    [] status = "500" -> "Internal Server Error"

\* An answer: the fetch promise rejects (network), or resolves with a
\* response whose body is not JSON ("text"), is JSON null ("null"), or is a
\* JSON object ("object") with an optional detail string (error answers) and
\* an optional processed_data (<<>>: the property is missing).
NetworkFailure == [network |-> TRUE, ok |-> FALSE, status |-> "0", body |-> "none",
                   detail |-> "", processed_data |-> <<>>]

ErrorResponses ==
  {[network |-> FALSE, ok |-> FALSE, status |-> st, body |-> b,
    detail |-> d, processed_data |-> <<>>]
     : st \in Statuses, b \in {"text", "null"}, d \in {""}}
  \cup
  {[network |-> FALSE, ok |-> FALSE, status |-> st, body |-> "object",
    detail |-> d, processed_data |-> <<>>]
     : st \in Statuses, d \in {"", "bad file"}}

OkResponses ==
  {[network |-> FALSE, ok |-> TRUE, status |-> "200", body |-> b,
    detail |-> "", processed_data |-> <<>>] : b \in {"text", "null", "object"}}
  \cup
  {[network |-> FALSE, ok |-> TRUE, status |-> "200", body |-> "object",
    detail |-> "", processed_data |-> <<R>>] : R \in RecordArrays}

Responses == {NetworkFailure} \cup ErrorResponses \cup OkResponses

\* err.message of what response.json() throws
JsonSyntaxError == <<"Unexpected token < in JSON at position 0">>
\* err.message of a property read on null
NullTypeError   == <<"Cannot read properties of null">>
\* err.message of a rejected fetch
FetchTypeError  == <<"Failed to fetch">>

----------------------------------------------------------------------------
(* Routing (App.js) *)

\* the element the Routes of App.js render for a user and a path
ViewOf(u, r) ==
  IF u # NoUser /\ r = "/upload" THEN "FileUpload"
  ELSE IF u # NoUser /\ r = "/results" THEN "ResultsTable"
  ELSE "Login"

view == ViewOf(user, route)

\* an open Dialog is modal: it covers the table, its buttons and the Navbar
ModalOpen == editDialogOpen \/ deleteDialogOpen

\* location.state?.processedData || []
initialData(st) ==
  IF st = <<>> THEN <<>>
  ELSE IF st[1].processedData = <<>> THEN <<>>
  ELSE st[1].processedData[1]

\* `|| []` builds a new array on every render, so the effect's dependency
\* changes on every render exactly when the location carries no array
FreshEveryRender(st) ==
  \/ st = <<>>
  \/ st[1].processedData = <<>>

\* an effect that adds the array to the rows the table has
useEffectAppends(td, initial) ==
  IF Len(initial) > 0 THEN td \o initial
  ELSE IF Len(td) > 0 THEN <<>>
  ELSE td

\* an effect that leaves a table that has rows alone
useEffectKeepsRows(td, initial) ==
  IF Len(td) > 0 THEN td ELSE initial

\* the body of the effect of ResultsTable, on the table it finds
useEffect(td, initial) ==
  IF Len(initial) > 0 THEN initial
  ELSE IF Len(td) > 0 THEN <<>>
  ELSE td

\* tableData once the render that follows a handler has run its effects
afterRender(td) ==
  IF FreshEveryRender(locState) THEN useEffect(td, initialData(locState)) ELSE td

\* the state a FileUpload is constructed with (and the model's value of the
\* state of a FileUpload that is not mounted)
UploadFresh ==
  /\ sofFile' = NoFile
  /\ cpFile' = NoFile
  /\ additionalFile' = NoFile
  /\ loading' = FALSE
  /\ error' = NoError

\* the state a ResultsTable is constructed with, on a location state st
TableFresh(st) ==
  /\ tableData' = useEffect(initialData(st), initialData(st))
  /\ editDialogOpen' = FALSE
  /\ deleteDialogOpen' = FALSE
  /\ currentRowToEdit' = <<>>
  /\ currentEditedRow' = <<>>
  /\ rowToDeleteId' = NullId

TableUnmounted ==
  /\ tableData' = <<>>
  /\ editDialogOpen' = FALSE
  /\ deleteDialogOpen' = FALSE
  /\ currentRowToEdit' = <<>>
  /\ currentEditedRow' = <<>>
  /\ rowToDeleteId' = NullId

\* the step sends nothing, downloads nothing and shows no alert
NoOutput == [kind |-> "none", name |-> "", content |-> <<>>]

\* requests whose FileUpload has been unmounted have no component to update
Orphaned(reqs) == [live |-> 0, orphan |-> reqs.orphan + reqs.live]

\* A change of user, path or location state, and what React does with the
\* two pages: a page that stays keeps its state, a page that appears is
\* constructed, a ResultsTable that stays sees the new location state.
\* reqs: the requests that remain in flight.
Navigate(u, r, st, reqs) ==
  /\ user' = u
  /\ route' = r
  /\ locState' = st
  /\ IF ViewOf(u, r) = "FileUpload" /\ view = "FileUpload"
     THEN UNCHANGED uploadVars /\ inflight' = reqs
     ELSE UploadFresh /\ inflight' = Orphaned(reqs)
  /\ IF ViewOf(u, r) = "ResultsTable"
     THEN IF view = "ResultsTable"
          THEN /\ tableData' = useEffect(tableData, initialData(st))
               /\ UNCHANGED <<editDialogOpen, deleteDialogOpen, currentRowToEdit,
                              currentEditedRow, rowToDeleteId>>
          ELSE TableFresh(st)
     ELSE TableUnmounted
  /\ output' = NoOutput

LoginTypes == {"google", "apple"}

\* Login.handleMockLogin: either button makes a mock user
mockUserData(type) == type \in LoginTypes

\* App.handleLoginSuccess, from a button of the Login page
handleLoginSuccess(type) ==
  /\ view = "Login"
  /\ Navigate(mockUserData(type), "/upload", <<>>, inflight)

\* App.handleLogout, from the Navbar menu
handleLogout ==
  /\ user # NoUser
  /\ ~ModalOpen
  /\ Navigate(NoUser, "/", <<>>, inflight)

\* the Navbar's <Link to="/">
LinkHome ==
  /\ ~ModalOpen
  /\ Navigate(user, "/", <<>>, inflight)

NoRequests == [live |-> 0, orphan |-> 0]

\* A page load at path r with history state st: index.js renders a new App,
\* which restores the user from localStorage; the requests of the page that
\* was unloaded are gone with it.
PageLoad(r, st) ==
  /\ user' = user
  /\ route' = r
  /\ locState' = st
  /\ UploadFresh
  /\ inflight' = NoRequests
  /\ IF ViewOf(user, r) = "ResultsTable" THEN TableFresh(st) ELSE TableUnmounted
  /\ output' = NoOutput

\* the browser's reload button: the page is loaded again at the same history
\* entry, whose state the browser has kept
Reload == PageLoad(route, locState)

Paths == {"/", "/upload", "/results"}

\* a path typed into the address bar: a page load at a new history entry,
\* which has no state
UrlEntry(r) == PageLoad(r, <<>>)

----------------------------------------------------------------------------
(* Submission controller (FileUpload.jsx) *)

\* fileExtension without toLowerCase
fileExtensionCaseSensitive(file) == LastSegment(file)

\* const fileExtension = fileNameParts[fileNameParts.length - 1].toLowerCase()
fileExtension(file) == toLowerCase(LastSegment(file))

\* handleFileChange that leaves the slot alone when it rejects the file
handleFileChangeKeeps(slot, allowedTypes, file) ==
  IF file # NoFile
  THEN IF ~includes(allowedTypes, fileExtension(file))
       THEN /\ error' = InvalidTypeMsg(allowedTypes)
            /\ UNCHANGED <<sofFile, cpFile, additionalFile>>
       ELSE /\ error' = NoError
            /\ setter(slot, file)
  ELSE /\ error' = NoError
       /\ setter(slot, NoFile)

\* handleFileChange(setter, allowedTypes, file); file = NoFile: files[0] is
\* undefined (the chooser was closed without a file)
handleFileChange(slot, allowedTypes, file) ==
  IF file # NoFile
  THEN IF ~includes(allowedTypes, fileExtension(file))
       THEN /\ error' = InvalidTypeMsg(allowedTypes)
            /\ setter(slot, NoFile)
       ELSE /\ error' = NoError
            /\ setter(slot, file)
  ELSE /\ error' = NoError
       /\ setter(slot, NoFile)

\* onChange of the file input of a slot
FileInputChange(slot, file) ==
  /\ view = "FileUpload"
  /\ handleFileChange(slot, AllowedTypes(slot), file)
  /\ output' = NoOutput
  /\ UNCHANGED <<appVars, loading, netVars, tableVars>>

\* the Remove button of a slot, rendered when the slot holds a file
RemoveClick(slot) ==
  /\ view = "FileUpload"
  /\ SlotFile(slot) # NoFile
  /\ setter(slot, NoFile)
  /\ output' = NoOutput
  /\ UNCHANGED <<appVars, loading, error, netVars, tableVars>>

\* fetch(...): one more request in flight, owned by the mounted FileUpload
fetch(reqs) == [reqs EXCEPT !.live = @ + 1]

\* the POST that fetch sends
Request(data) == [kind |-> "request", name |-> "process-documents", content |-> data]

\* the requests in flight but one, of the mounted FileUpload (live) or of a
\* FileUpload unmounted since (not live)
Without(reqs, live) ==
  IF live THEN [reqs EXCEPT !.live = @ - 1] ELSE [reqs EXCEPT !.orphan = @ - 1]

InFlight(live) == IF live THEN inflight.live > 0 ELSE inflight.orphan > 0

\* the number of requests sent and not yet answered
Pending == inflight.live + inflight.orphan

\* a FormData with a part for every slot, filled or not
formDataAllSlots ==
  <<<<"sof_file", sofFile>>, <<"cp_file", cpFile>>,
    <<"additional_file", additionalFile>>>>

\* new FormData() and its appends: the parts in order, each a field name and
\* a file
formData ==
  <<<<"sof_file", sofFile>>>>
  \o (IF cpFile # NoFile THEN <<<<"cp_file", cpFile>>>> ELSE <<>>)
  \o (IF additionalFile # NoFile THEN <<<<"additional_file", additionalFile>>>> ELSE <<>>)

\* handleSubmit without the check of the SOF slot
handleSubmitUnchecked ==
  /\ loading' = TRUE
  /\ error' = NoError
  /\ inflight' = [inflight EXCEPT !.live = @ + 1]
  /\ output' = Request(formData)
  /\ UNCHANGED <<sofFile, cpFile, additionalFile>>

\* handleSubmit, up to the await of fetch
handleSubmit ==
  IF sofFile = NoFile
  THEN /\ error' = MissingRequiredFileMsg
       /\ output' = NoOutput
       /\ UNCHANGED <<sofFile, cpFile, additionalFile, loading, netVars>>
  ELSE /\ loading' = TRUE
       /\ error' = NoError
       /\ inflight' = fetch(inflight)
       /\ output' = Request(formData)
       /\ UNCHANGED <<sofFile, cpFile, additionalFile>>

\* disabled={loading || !sofFile} of the Submit Documents button
SubmitDisabled == loading \/ sofFile = NoFile

\* a click on the Submit Documents button
SubmitClick ==
  /\ view = "FileUpload"
  /\ ~SubmitDisabled
  /\ Pending < MaxInFlight
  /\ handleSubmit
  /\ UNCHANGED <<appVars, tableVars>>

\* handleSubmit invoked as a function, whatever the button shows
SubmitCall ==
  /\ view = "FileUpload"
  /\ sofFile = NoFile \/ Pending < MaxInFlight
  /\ handleSubmit
  /\ UNCHANGED <<appVars, tableVars>>

\* What the try block of handleSubmit does with an answer:
\* thrown: control reaches catch, with err.message = message;
\* otherwise navigate('/results', {state: {processedData}}) is called.
Outcome(resp) ==
  IF resp.network
  THEN [thrown |-> TRUE, message |-> FetchTypeError, processedData |-> <<>>]
  ELSE IF ~resp.ok
  THEN IF resp.body = "text"
       THEN [thrown |-> TRUE, message |-> JsonSyntaxError, processedData |-> <<>>]
       ELSE IF resp.body = "null"
       THEN [thrown |-> TRUE, message |-> NullTypeError, processedData |-> <<>>]
       ELSE [thrown |-> TRUE,
             message |-> <<"Server error: ", resp.status, " - ",
                           IF resp.detail # "" THEN resp.detail
                           ELSE statusText(resp.status)>>,
             processedData |-> <<>>]
  ELSE IF resp.body = "text"
       THEN [thrown |-> TRUE, message |-> JsonSyntaxError, processedData |-> <<>>]
       ELSE IF resp.body = "null"
       THEN [thrown |-> TRUE, message |-> NullTypeError, processedData |-> <<>>]
       ELSE [thrown |-> FALSE, message |-> <<>>,
             processedData |-> resp.processed_data]

\* catch that sends the request again
catchFinallyRetry(live, message) ==
  /\ IF live
     THEN /\ error' = FailedMsg(message)
          /\ loading' = FALSE
          /\ UNCHANGED <<sofFile, cpFile, additionalFile>>
     ELSE UNCHANGED uploadVars
  /\ inflight' = inflight
  /\ output' = NoOutput
  /\ UNCHANGED <<appVars, tableVars>>

\* catch and finally of handleSubmit: setError and setLoading act on the
\* FileUpload that sent the request, if it is still mounted (live)
catchFinally(live, message) ==
  /\ IF live
     THEN /\ error' = FailedMsg(message)
          /\ loading' = FALSE
          /\ UNCHANGED <<sofFile, cpFile, additionalFile>>
     ELSE UNCHANGED uploadVars
  /\ inflight' = Without(inflight, live)
  /\ output' = NoOutput
  /\ UNCHANGED <<appVars, tableVars>>

\* the navigate call on success, then finally
navigateResults(live, processedData) ==
  /\ Navigate(user, "/results", <<[processedData |-> processedData]>>,
              Without(inflight, live))

\* the continuation of handleSubmit after the await, on answer resp
Answer(live, resp) ==
  /\ InFlight(live)
  /\ LET o == Outcome(resp)
     IN  IF o.thrown
         THEN catchFinally(live, o.message)
         ELSE navigateResults(live, o.processedData)

----------------------------------------------------------------------------
(* Result store (ResultsTable.jsx) *)

\* columns taken once, from the array the location carries
columnsAtInstall(td) ==
  IF Len(initialData(locState)) > 0
  THEN LET notId(key) == key # "id"
       IN  SelectSeq(Keys(initialData(locState)[1]), notId)
  ELSE <<>>

\* tableData.length > 0 ? Object.keys(tableData[0]).filter(key => key !== 'id') : []
columns(td) ==
  IF Len(td) > 0
  THEN LET notId(key) == key # "id" IN SelectSeq(Keys(td[1]), notId)
  ELSE <<>>

\* map without the comparison of ids
saveEditEveryRow(prevData, edited) ==
  [i \in 1..Len(prevData) |-> edited]

\* a commit that adds the edited record when no row has its id
saveEditOrAppend(prevData, edited) ==
  IF \E i \in 1..Len(prevData) : Get(prevData[i], "id") = Get(edited, "id")
  THEN [i \in 1..Len(prevData) |->
          IF Get(prevData[i], "id") = Get(edited, "id") THEN edited ELSE prevData[i]]
  ELSE Append(prevData, edited)

\* prevData.map(row => row.id === currentEditedRow.id ? {...currentEditedRow} : row)
saveEdit(prevData, edited) ==
  [i \in 1..Len(prevData) |->
     IF Get(prevData[i], "id") = Get(edited, "id") THEN edited ELSE prevData[i]]

\* filter that drops the first row, whatever its id
confirmDeleteFirst(prevData, id) ==
  IF Len(prevData) = 0 THEN prevData ELSE Tail(prevData)

\* prevData.filter(row => row.id !== rowToDeleteId)
confirmDelete(prevData, id) ==
  LET keep(row) == Get(row, "id") # id IN SelectSeq(prevData, keep)

\* the edit button of row i
handleEditClick(i) ==
  /\ view = "ResultsTable"
  /\ ~ModalOpen
  /\ i \in 1..Len(tableData)
  /\ currentRowToEdit' = <<tableData[i]>>
  /\ currentEditedRow' = tableData[i]
  /\ editDialogOpen' = TRUE
  /\ tableData' = afterRender(tableData)
  /\ output' = NoOutput
  /\ UNCHANGED <<deleteDialogOpen, rowToDeleteId, appVars, uploadVars, netVars>>

\* a TextField that writes the value into the table as well
handleFieldChangeThrough(name, value) ==
  /\ view = "ResultsTable"
  /\ editDialogOpen
  /\ currentRowToEdit # <<>>
  /\ \E k \in 1..Len(columns(tableData)) : columns(tableData)[k] = name
  /\ currentEditedRow' = Put(currentEditedRow, name, value)
  /\ tableData' = afterRender(saveEdit(tableData, Put(currentEditedRow, name, value)))
  /\ output' = NoOutput
  /\ UNCHANGED <<editDialogOpen, deleteDialogOpen, currentRowToEdit, rowToDeleteId,
                 appVars, uploadVars, netVars>>

\* a TextField of the edit dialog: one per column, when a row is being edited
handleFieldChange(name, value) ==
  /\ view = "ResultsTable"
  /\ editDialogOpen
  /\ currentRowToEdit # <<>>
  /\ \E k \in 1..Len(columns(tableData)) : columns(tableData)[k] = name
  /\ currentEditedRow' = Put(currentEditedRow, name, value)
  /\ tableData' = afterRender(tableData)
  /\ output' = NoOutput
  /\ UNCHANGED <<editDialogOpen, deleteDialogOpen, currentRowToEdit, rowToDeleteId,
                 appVars, uploadVars, netVars>>

\* handleSaveEdit()
handleSaveEdit ==
  /\ tableData' = afterRender(saveEdit(tableData, currentEditedRow))
  /\ editDialogOpen' = FALSE
  /\ currentRowToEdit' = <<>>
  /\ currentEditedRow' = <<>>
  /\ output' = NoOutput
  /\ UNCHANGED <<deleteDialogOpen, rowToDeleteId, appVars, uploadVars, netVars>>

\* Save Changes of the edit dialog
SaveClick ==
  /\ view = "ResultsTable"
  /\ editDialogOpen
  /\ handleSaveEdit

\* Cancel / onClose of the edit dialog: setEditDialogOpen(false)
CloseEditDialog ==
  /\ view = "ResultsTable"
  /\ editDialogOpen
  /\ editDialogOpen' = FALSE
  /\ tableData' = afterRender(tableData)
  /\ output' = NoOutput
  /\ UNCHANGED <<deleteDialogOpen, currentRowToEdit, currentEditedRow, rowToDeleteId,
                 appVars, uploadVars, netVars>>

\* handleDeleteClick(rowId)
handleDeleteClick(rowId) ==
  /\ rowToDeleteId' = rowId
  /\ deleteDialogOpen' = TRUE
  /\ tableData' = afterRender(tableData)
  /\ output' = NoOutput
  /\ UNCHANGED <<editDialogOpen, currentRowToEdit, currentEditedRow,
                 appVars, uploadVars, netVars>>

\* the delete button of row i
DeleteClick(i) ==
  /\ view = "ResultsTable"
  /\ ~ModalOpen
  /\ i \in 1..Len(tableData)
  /\ handleDeleteClick(Get(tableData[i], "id"))

\* Delete of the delete dialog
handleConfirmDelete ==
  /\ view = "ResultsTable"
  /\ deleteDialogOpen
  /\ tableData' = afterRender(confirmDelete(tableData, rowToDeleteId))
  /\ deleteDialogOpen' = FALSE
  /\ rowToDeleteId' = NullId
  /\ output' = NoOutput
  /\ UNCHANGED <<editDialogOpen, currentRowToEdit, currentEditedRow,
                 appVars, uploadVars, netVars>>

\* Cancel / onClose of the delete dialog: setDeleteDialogOpen(false)
CloseDeleteDialog ==
  /\ view = "ResultsTable"
  /\ deleteDialogOpen
  /\ deleteDialogOpen' = FALSE
  /\ tableData' = afterRender(tableData)
  /\ output' = NoOutput
  /\ UNCHANGED <<editDialogOpen, currentRowToEdit, currentEditedRow, rowToDeleteId,
                 appVars, uploadVars, netVars>>

\* Clear All that does not look at the answer to window.confirm
handleTableWiseDeleteUnasked(confirmDeleteAll) ==
  /\ view = "ResultsTable"
  /\ ~ModalOpen
  /\ Len(tableData) # 0
  /\ tableData' = afterRender(<<>>)
  /\ output' = NoOutput
  /\ UNCHANGED <<editDialogOpen, deleteDialogOpen, currentRowToEdit, currentEditedRow,
                 rowToDeleteId, appVars, uploadVars, netVars>>

\* Clear All Displayed Results (disabled on an empty table); confirmDeleteAll
\* is the answer to window.confirm
handleTableWiseDelete(confirmDeleteAll) ==
  /\ view = "ResultsTable"
  /\ ~ModalOpen
  /\ Len(tableData) # 0
  /\ IF ~confirmDeleteAll
     THEN tableData' = afterRender(tableData)
     ELSE tableData' = afterRender(<<>>)
  /\ output' = NoOutput
  /\ UNCHANGED <<editDialogOpen, deleteDialogOpen, currentRowToEdit, currentEditedRow,
                 rowToDeleteId, appVars, uploadVars, netVars>>

\* alert(message)
Alert(message) == [kind |-> "alert", name |-> "", content |-> <<message>>]

\* the click on a link whose href is a Blob of content and whose download
\* attribute is name
Download(name, content) == [kind |-> "download", name |-> name, content |-> content]

\* Papa.unparse(data) of an array of objects, as rows of cells: a header row
\* of the keys of the first object, then for each object its values under
\* those keys, the empty string where it has no such key; nothing for []
unparse(data) ==
  IF Len(data) = 0 THEN <<>>
  ELSE LET fields == Keys(data[1])
       IN  <<fields>> \o
           [i \in 1..Len(data) |->
              [k \in 1..Len(fields) |->
                 IF Has(data[i], fields[k]) THEN Get(data[i], fields[k]) ELSE ""]]

RECURSIVE concat(_)
concat(seqs) == IF Len(seqs) = 0 THEN <<>> ELSE Head(seqs) \o concat(Tail(seqs))

\* JSON.stringify(data, null, 2) of an array of objects, as its tokens
\* without commas and white space: [ { key : value key : value } { ... } ]
stringify(data) ==
  <<"[">> \o
  concat([i \in 1..Len(data) |->
            <<"{">> \o
            concat([k \in 1..Len(data[i]) |-> <<data[i][k][1], ":", data[i][k][2]>>])
            \o <<"}">>])
  \o <<"]">>

\* handleDownloadCSV without the test of tableData.length
handleDownloadCSVUnchecked ==
  /\ output' = Download("results.csv", unparse(tableData))
  /\ UNCHANGED <<appVars, uploadVars, netVars, tableVars>>

handleDownloadCSV ==
  /\ IF Len(tableData) = 0
     THEN output' = Alert("No data to download.")
     ELSE output' = Download("results.csv", unparse(tableData))
  /\ UNCHANGED <<appVars, uploadVars, netVars, tableVars>>

\* handleDownloadJSON of the array the location carries
handleDownloadJSONInstalled ==
  /\ IF Len(tableData) = 0
     THEN output' = Alert("No data to download.")
     ELSE output' = Download("results.json", stringify(initialData(locState)))
  /\ UNCHANGED <<appVars, uploadVars, netVars, tableVars>>

handleDownloadJSON ==
  /\ IF Len(tableData) = 0
     THEN output' = Alert("No data to download.")
     ELSE output' = Download("results.json", stringify(tableData))
  /\ UNCHANGED <<appVars, uploadVars, netVars, tableVars>>

\* the Download CSV and Download JSON buttons (disabled on an empty table)
DownloadCSVClick ==
  /\ view = "ResultsTable"
  /\ ~ModalOpen
  /\ Len(tableData) # 0
  /\ handleDownloadCSV

DownloadJSONClick ==
  /\ view = "ResultsTable"
  /\ ~ModalOpen
  /\ Len(tableData) # 0
  /\ handleDownloadJSON

----------------------------------------------------------------------------
(* The application *)

\* a first visit: nobody logged in, the Login page at "/"
Init ==
  /\ user = NoUser
  /\ route = "/"
  /\ locState = <<>>
  /\ sofFile = NoFile
  /\ cpFile = NoFile
  /\ additionalFile = NoFile
  /\ loading = FALSE
  /\ error = NoError
  /\ inflight = NoRequests
  /\ output = NoOutput
  /\ tableData = <<>>
  /\ editDialogOpen = FALSE
  /\ deleteDialogOpen = FALSE
  /\ currentRowToEdit = <<>>
  /\ currentEditedRow = <<>>
  /\ rowToDeleteId = NullId

\* what the user can do with the pages, and what the network can do
Next ==
  \/ \E type \in LoginTypes : handleLoginSuccess(type)
  \/ handleLogout
  \/ LinkHome
  \/ Reload
  \/ \E r \in Paths : UrlEntry(r)
  \/ \E slot \in Slots, file \in Files \cup {NoFile} : FileInputChange(slot, file)
  \/ \E slot \in Slots : RemoveClick(slot)
  \/ SubmitClick
  \/ \E live \in BOOLEAN, resp \in Responses : Answer(live, resp)
  \/ \E i \in 1..Len(tableData) : handleEditClick(i)
  \/ \E name \in FieldNames, value \in EditValues : handleFieldChange(name, value)
  \/ SaveClick
  \/ CloseEditDialog
  \/ \E i \in 1..Len(tableData) : DeleteClick(i)
  \/ handleConfirmDelete
  \/ CloseDeleteDialog
  \/ \E c \in BOOLEAN : handleTableWiseDelete(c)

Spec == Init /\ [][Next]_vars

\* handleDeleteClick invoked as a function, with any id
DeleteCall(rowId) ==
  /\ view = "ResultsTable"
  /\ ~ModalOpen
  /\ handleDeleteClick(rowId)

\* handleSaveEdit invoked as a function while no edit dialog is open: the
\* buffer is the empty object of the last commit, or what a cancelled edit left
SaveCall ==
  /\ view = "ResultsTable"
  /\ ~ModalOpen
  /\ handleSaveEdit

\* handleDownloadCSV and handleDownloadJSON invoked as functions, whatever
\* the buttons show
DownloadCSVCall ==
  /\ view = "ResultsTable"
  /\ ~ModalOpen
  /\ handleDownloadCSV

DownloadJSONCall ==
  /\ view = "ResultsTable"
  /\ ~ModalOpen
  /\ handleDownloadJSON

\* the handlers called as functions as well: handleSubmit whatever the Submit
\* button shows, handleDeleteClick with an id no row has
NextCall ==
  \/ Next
  \/ SubmitCall
  \/ \E rowId \in Ids \cup {NullId} : DeleteCall(rowId)

SpecCall == Init /\ [][NextCall]_vars

\* The pages as the user works them, and handleSaveEdit called as a function
\* as well
NextEdit ==
  \/ Next
  \/ SaveCall

SpecEdit == Init /\ [][NextEdit]_vars

\* The results page and its downloads: the user logs in, submits, works on
\* the table and downloads it (by the buttons, and with the handlers called
\* as functions); he moves between the pages by the browser (reload, typed
\* address) and does not use the Navbar.
NextExport ==
  \/ \E type \in LoginTypes : handleLoginSuccess(type)
  \/ Reload
  \/ \E r \in Paths : UrlEntry(r)
  \/ \E slot \in Slots, file \in Files \cup {NoFile} : FileInputChange(slot, file)
  \/ \E slot \in Slots : RemoveClick(slot)
  \/ SubmitClick
  \/ \E resp \in Responses : Answer(TRUE, resp)
  \/ \E i \in 1..Len(tableData) : handleEditClick(i)
  \/ \E name \in FieldNames, value \in EditValues : handleFieldChange(name, value)
  \/ SaveClick
  \/ CloseEditDialog
  \/ \E i \in 1..Len(tableData) : DeleteClick(i)
  \/ handleConfirmDelete
  \/ CloseDeleteDialog
  \/ \E c \in BOOLEAN : handleTableWiseDelete(c)
  \/ DownloadCSVClick
  \/ DownloadJSONClick
  \/ DownloadCSVCall
  \/ DownloadJSONCall

SpecExport == Init /\ [][NextExport]_vars

----------------------------------------------------------------------------
(* Claims *)

\* C1: in every reachable state at most one submission request is in flight
\* (a submit while one is pending sends no second request).
C1_AtMostOneInFlight == Pending <= 1

\* C2: handleSubmit with an empty SOF slot sets the missing-required-file
\* message, sends no request and does not leave idle (loading is not touched),
\* whatever the two optional slots hold.
C2_MissingRequiredFile ==
  [][(SubmitCall /\ sofFile = NoFile) =>
       /\ error' = MissingRequiredFileMsg
       /\ inflight' = inflight
       /\ loading' = loading
       /\ (~loading => ~loading')
       /\ <<sofFile, cpFile, additionalFile>>' = <<sofFile, cpFile, additionalFile>>
       /\ <<appVars, tableVars>>' = <<appVars, tableVars>>]_vars

\* the missing-file message is shown, nothing is in flight, the controller is
\* idle and an optional slot is filled
C2_Witness ==
  /\ view = "FileUpload"
  /\ error = MissingRequiredFileMsg
  /\ sofFile = NoFile
  /\ cpFile # NoFile
  /\ ~loading
  /\ Pending = 0

\* file name f ends in ".w" (in any case), or is w itself
HasExtension(f, w) ==
  LET e == Spell(w)
      n == Len(f)
      k == Len(e)
  IN  /\ n >= k
      /\ \A i \in 1..k : LowerChar(f[n - k + i]) = e[i]
      /\ n > k => f[n - k] = "."

\* some allowed extension is the extension of f
Allowed(f, allowedTypes) ==
  \E i \in 1..Len(allowedTypes) : HasExtension(f, allowedTypes[i])

\* msg names every allowed extension
NamesAll(msg, allowedTypes) ==
  \A i \in 1..Len(allowedTypes) : \E j \in 1..Len(msg) : msg[j] = allowedTypes[i]

\* C3: selecting file f into a slot leaves the slot holding f iff the
\* lowercased text after the last dot of f's name is in the slot's allow-list;
\* otherwise the slot is empty and the error message lists the allowed
\* extensions ("pdf, docx" for the SOF slot).
C3_SelectIffAllowed ==
  [][\A slot \in Slots, f \in Files :
       FileInputChange(slot, f) =>
         /\ SlotFile(slot)' = f <=> Allowed(f, AllowedTypes(slot))
         /\ ~Allowed(f, AllowedTypes(slot)) =>
              /\ SlotFile(slot)' = NoFile
              /\ error' # NoError
              /\ NamesAll(error', AllowedTypes(slot))
              /\ slot = "sof" =>
                   SubSeq(error', 2, Len(error')) = <<"pdf", ", ", "docx">>]_vars

\* a name with an upper-case extension after a second dot sits in the SOF
\* slot, and a .txt file selected into the CP slot was refused
C3_Witness ==
  /\ sofFile = <<"b", ".", "p", "n", "g", ".", "D", "o", "c", "X">>
  /\ cpFile = NoFile
  /\ error = InvalidTypeMsg(<<"pdf", "docx">>)

\* the position of key in obj
Pos(obj, key) == CHOOSE i \in 1..Len(obj) : obj[i][1] = key

\* c lists the keys of rec other than id, each once, in the order of rec
IsKeysWithoutId(c, rec) ==
  /\ \A i \in 1..Len(c) : c[i] # "id" /\ Has(rec, c[i])
  /\ \A i \in 1..Len(rec) : rec[i][1] # "id" => \E j \in 1..Len(c) : c[j] = rec[i][1]
  /\ \A i, j \in 1..Len(c) : i < j => Pos(rec, c[i]) < Pos(rec, c[j])

\* success answers that carry a record array
Envelopes == {resp \in OkResponses : resp.body = "object" /\ resp.processed_data # <<>>}

\* C4: when a success answer carries the record array R and the results view
\* is rendered for it, tableData is R (same records, same order) and, for
\* non-empty R, columns is the field names of R[1] in order without id.
C4_HandoffInstalls ==
  [][\A live \in BOOLEAN, resp \in Envelopes :
       (user # NoUser /\ InFlight(live) /\ Answer(live, resp)) =>
         LET R == resp.processed_data[1]
         IN  /\ view' = "ResultsTable"
             /\ tableData' = R
             /\ Len(R) > 0 => IsKeysWithoutId(columns(tableData'), R[1])]_vars

\* the results view shows an untouched array of wide records
C4_Witness ==
  /\ view = "ResultsTable"
  /\ Len(tableData) >= 2
  /\ tableData = initialData(locState)
  /\ columns(tableData) = <<"event", "time">>

\* C5: a non-success answer fails the submission with a message that carries
\* the HTTP status and the service's detail (when the body has one), whatever
\* the body is, and nothing is handed to the result store.
C5_ServiceErrorCarriesStatus ==
  [][\A resp \in ErrorResponses :
       Answer(TRUE, resp) =>
         /\ \E j \in 1..Len(error') : error'[j] = resp.status
         /\ (resp.body = "object" /\ resp.detail # "") =>
              \E j \in 1..Len(error') : error'[j] = resp.detail
         /\ ~loading'
         /\ appVars' = appVars
         /\ tableData' = tableData]_vars

\* success answers whose body is not the envelope
Malformed == OkResponses \ Envelopes

\* C6: a success answer whose body is not the envelope fails the submission
\* with an error, makes no navigation handoff and leaves tableData alone.
C6_MalformedRejected ==
  [][\A live \in BOOLEAN, resp \in Malformed :
       Answer(live, resp) =>
         /\ live => error' # NoError
         /\ appVars' = appVars
         /\ tableData' = tableData]_vars

\* the answers that make a submission fail
Failures == {NetworkFailure} \cup ErrorResponses \cup Malformed

\* C7: a failed submission (missing file, service error, network failure,
\* malformed answer) leaves the controller idle with the error shown and
\* tableData as it was.
C7_FailureRestoresIdle ==
  [][/\ \A live \in BOOLEAN, resp \in Failures :
          Answer(live, resp) =>
            /\ tableData' = tableData
            /\ live => (view' = "FileUpload" /\ ~loading' /\ error' # NoError)
     /\ (SubmitCall /\ sofFile = NoFile) =>
          (tableData' = tableData /\ loading' = loading /\ error' # NoError)]_vars

\* C8: a request is sent only by an accepted submit, one per accepted submit;
\* an answer, failed or not, sends none (no automatic retry).
C8_OneRequestPerSubmit ==
  [][/\ (SubmitCall /\ sofFile # NoFile) => Pending' = Pending + 1
     /\ (SubmitCall /\ sofFile = NoFile) => Pending' = Pending
     /\ Pending' > Pending => (SubmitCall /\ sofFile # NoFile)
     /\ (Pending' # Pending - 1 /\ <<inflight, loading>>' # <<inflight, loading>>) =>
          ~\E live \in BOOLEAN, resp \in Responses : Answer(live, resp)]_vars

\* a submission has failed: the error is shown, the controller is idle and
\* nothing is in flight
C8_Witness ==
  /\ view = "FileUpload"
  /\ Len(error) > 0
  /\ error[1] = "Failed to process documents: "
  /\ sofFile # NoFile
  /\ ~loading
  /\ Pending = 0

\* C9: Save after an edit of row r and one field change (name := value)
\* changes the one record whose id is r's, in that one field (which holds
\* value afterwards); every other field of it, every other record, the length
\* and the order of tableData are unchanged.
C9_SaveChangesOneField ==
  [][\A name \in FieldNames, value \in EditValues :
       (/\ handleSaveEdit
        /\ currentRowToEdit # <<>>
        /\ \E i \in 1..Len(tableData) : tableData[i] = currentRowToEdit[1]
        /\ currentEditedRow = Put(currentRowToEdit[1], name, value)) =>
         LET r == currentRowToEdit[1]
         IN  /\ Len(tableData') = Len(tableData)
             /\ Cardinality({i \in 1..Len(tableData) :
                               Get(tableData[i], "id") = Get(r, "id")}) = 1
             /\ \A i \in 1..Len(tableData) :
                  IF Get(tableData[i], "id") = Get(r, "id")
                  THEN /\ Get(tableData'[i], name) = value
                       /\ value # Get(r, name) => tableData'[i] # tableData[i]
                       /\ \A key \in (FieldNames \cup {"id"}) \ {name} :
                            /\ Get(tableData'[i], key) = Get(tableData[i], key)
                            /\ Has(tableData'[i], key) <=> Has(tableData[i], key)
                  ELSE tableData'[i] = tableData[i]]_vars

\* one record of the installed array differs from it, in its time field only
C9_Witness ==
  /\ view = "ResultsTable"
  /\ ~editDialogOpen
  /\ Len(tableData) >= 2
  /\ Len(tableData) = Len(initialData(locState))
  /\ \E i \in 1..Len(tableData) :
       /\ Get(tableData[i], "time") = "x"
       /\ Get(tableData[i], "event") = "a"
       /\ Get(tableData[i], "id") = Get(initialData(locState)[i], "id")
       /\ \A j \in 1..Len(tableData) : j # i => tableData[j] = initialData(locState)[j]

\* C10: Delete removes the records whose id is rowToDeleteId and keeps the
\* others in their order; with no such record tableData is unchanged, so a
\* second delete of the same id changes nothing.
C10_DeleteKeepsOrder ==
  [][handleConfirmDelete =>
       LET id      == rowToDeleteId
           kept    == {i \in 1..Len(tableData) : Get(tableData[i], "id") # id}
           pos(i)  == Cardinality({k \in kept : k <= i})
       IN  /\ Len(tableData') = Cardinality(kept)
           /\ \A i \in kept : tableData'[pos(i)] = tableData[i]
           /\ \A i \in 1..Len(tableData') : Get(tableData'[i], "id") # id
           /\ kept = 1..Len(tableData) => tableData' = tableData
           /\ confirmDelete(tableData', id) = tableData']_vars

\* the middle record of three is gone, the first and the last remain in order
C10_Witness ==
  /\ view = "ResultsTable"
  /\ ~deleteDialogOpen
  /\ Len(initialData(locState)) = 3
  /\ tableData = <<initialData(locState)[1], initialData(locState)[3]>>

\* C11: Clear All without the user's confirmation leaves tableData as it was;
\* with the confirmation tableData becomes empty and columns is the empty list.
C11_ClearAllAsksFirst ==
  [][/\ handleTableWiseDelete(FALSE) => tableData' = tableData
     /\ handleTableWiseDelete(TRUE) =>
          /\ tableData' = <<>>
          /\ columns(tableData') = <<>>
          /\ tableData # <<>>]_vars

\* the results view shows no row and no column although the location still
\* carries three records, and no delete was prepared
C11_Witness ==
  /\ view = "ResultsTable"
  /\ Len(initialData(locState)) = 3
  /\ tableData = <<>>
  /\ columns(tableData) = <<>>
  /\ rowToDeleteId = NullId
  /\ ~ModalOpen

\* a success answer hands its record array to the results view in this step
Delivery == \E live \in BOOLEAN, resp \in Envelopes : Answer(live, resp)

\* the results view is entered in this step: it was not shown before, or the
\* page is loaded anew
Enters ==
  /\ view' = "ResultsTable"
  /\ view # "ResultsTable" \/ Reload \/ UrlEntry("/results")

\* C12: when the results view is entered without a record array delivered in
\* that step (a typed address, a reload, a return to the view), tableData is
\* empty: nothing of an earlier visit is shown.
C12_EmptyWithoutDelivery ==
  [][(Enters /\ ~Delivery) => tableData' = <<>>]_vars

\* tableData is set from the array the location carries in this step
Installs ==
  /\ view' = "ResultsTable"
  /\ initialData(locState') # <<>>
  /\ tableData' = initialData(locState')
  /\ appVars' # appVars \/ Reload

\* C13: the array of a successful submission is installed into tableData only
\* by the navigation that delivers it: no later step obtains it again from
\* the location.
C13_HandoffSingleUse ==
  [][Installs => Delivery]_vars

\* C14: the success answer to a request whose FileUpload the user has left
\* since is dropped: the path and the location state stay, the results view
\* is not navigated to and tableData is not changed.
C14_AbandonedDiscarded ==
  [][\A resp \in Envelopes :
       Answer(FALSE, resp) =>
         /\ route' = route
         /\ locState' = locState
         /\ view' = view
         /\ tableData' = tableData]_vars

\* the selections that handleFileChange rejects
Rejected ==
  {p \in Slots \X Files : ~includes(AllowedTypes(p[1]), fileExtension(p[2]))}

\* C15: a validation error changes nothing but the error message: after the
\* selection of a file with a disallowed extension, and after a submit with
\* an empty SOF slot, each of the three slots holds the file it held before,
\* and loading, the requests, the location and the table are as before.
C15_ValidationErrorFrame ==
  [][/\ view = "FileUpload" =>
          \A p \in Rejected :
            FileInputChange(p[1], p[2]) =>
              /\ error' = InvalidTypeMsg(AllowedTypes(p[1]))
              /\ <<sofFile, cpFile, additionalFile>>' = <<sofFile, cpFile, additionalFile>>
              /\ <<loading, netVars, appVars, tableVars>>' =
                   <<loading, netVars, appVars, tableVars>>
     /\ (SubmitCall /\ sofFile = NoFile) =>
          /\ error' = MissingRequiredFileMsg
          /\ <<sofFile, cpFile, additionalFile>>' = <<sofFile, cpFile, additionalFile>>
          /\ <<loading, netVars, appVars, tableVars>>' =
               <<loading, netVars, appVars, tableVars>>]_vars

\* C15, amended: a rejected selection sets the error message and empties the
\* slot it was made into; the other two slots hold the files they held, and
\* loading, the requests, the location and the table are as before.  A submit
\* with an empty SOF slot changes nothing but the error message.
C15_ValidationErrorClearsOwnSlot ==
  [][/\ view = "FileUpload" =>
          \A p \in Rejected :
            FileInputChange(p[1], p[2]) =>
              /\ error' = InvalidTypeMsg(AllowedTypes(p[1]))
              /\ SlotFile(p[1])' = NoFile
              /\ \A other \in Slots \ {p[1]} : SlotFile(other)' = SlotFile(other)
              /\ <<loading, netVars, appVars, tableVars>>' =
                   <<loading, netVars, appVars, tableVars>>
     /\ (SubmitCall /\ sofFile = NoFile) =>
          /\ error' = MissingRequiredFileMsg
          /\ <<sofFile, cpFile, additionalFile>>' = <<sofFile, cpFile, additionalFile>>
          /\ <<loading, netVars, appVars, tableVars>>' =
               <<loading, netVars, appVars, tableVars>>]_vars

\* a selection into the CP slot was refused while a request is pending: the
\* CP slot is empty, the other two slots hold their files
C15_Witness ==
  /\ view = "FileUpload"
  /\ error = InvalidTypeMsg(<<"pdf", "docx">>)
  /\ cpFile = NoFile
  /\ sofFile # NoFile
  /\ additionalFile # NoFile
  /\ loading

\* the multipart field name of a slot
FieldOf(slot) ==
  CASE slot = "sof"        -> "sof_file"
    [] slot = "cp"         -> "cp_file"
    [] slot = "additional" -> "additional_file"

\* the positions of the parts of payload b under a field name
PartsNamed(b, field) == {i \in 1..Len(b) : b[i][1] = field}

\* C16: the payload of an accepted submit has the SOF file under sof_file,
\* for each optional slot that holds a file one part with that file under the
\* slot's own field name, and no part (not an empty one) for an empty slot;
\* its parts are as many as the slots that hold a file.
C16_PayloadParts ==
  [][(SubmitCall /\ sofFile # NoFile) =>
       /\ output'.kind = "request"
       /\ \A slot \in Slots :
            IF SlotFile(slot) # NoFile
            THEN /\ Cardinality(PartsNamed(output'.content, FieldOf(slot))) = 1
                 /\ \A i \in PartsNamed(output'.content, FieldOf(slot)) :
                      output'.content[i][2] = SlotFile(slot)
            ELSE PartsNamed(output'.content, FieldOf(slot)) = {}
       /\ \A i \in 1..Len(output'.content) : output'.content[i][2] # NoFile
       /\ Len(output'.content) = Cardinality({slot \in Slots : SlotFile(slot) # NoFile})
       /\ (cpFile = NoFile /\ additionalFile = NoFile) => Len(output'.content) = 1]_vars

\* a request has just been sent whose payload has the SOF part and the
\* additional part, and no part for the CP slot, which is empty
C16_Witness ==
  /\ view = "FileUpload"
  /\ loading
  /\ inflight.live = 1
  /\ output.kind = "request"
  /\ Len(output.content) = 2
  /\ output.content[1] = <<"sof_file", sofFile>>
  /\ output.content[2] = <<"additional_file", <<"c", ".", "t", "x", "t">>>>
  /\ cpFile = NoFile

\* C17: a download asked for while tableData is empty produces no file and
\* shows the alert 'No data to download.'; a step produces a file only when
\* tableData holds at least one record.
C17_EmptyExportRefused ==
  [][/\ ((DownloadCSVCall \/ DownloadJSONCall) /\ tableData = <<>>) =>
          /\ output'.kind = "alert"
          /\ output'.content = <<"No data to download.">>
     /\ output'.kind = "download" => (Len(tableData) >= 1 /\ tableData' = tableData)
     /\ ((DownloadCSVCall \/ DownloadJSONCall) /\ tableData # <<>>) =>
          output'.kind = "download"]_vars

\* the alert is up on a results view whose table has been emptied
C17_Witness ==
  /\ view = "ResultsTable"
  /\ tableData = <<>>
  /\ Len(initialData(locState)) >= 1
  /\ output.kind = "alert"

\* Array.prototype.filter(key => key !== 'id') read the other way: the header
\* names id once and, id left out, is the list c
IsPlusId(header, c) ==
  /\ Cardinality({k \in 1..Len(header) : header[k] = "id"}) = 1
  /\ LET notId(key) == key # "id" IN SelectSeq(header, notId) = c

\* rows is a header row and one row per record of td, in the order of td,
\* each with the record's value under every header name (empty where the
\* record has no such field)
IsCsvOf(rows, td) ==
  /\ Len(rows) = Len(td) + 1
  /\ IsPlusId(rows[1], columns(td))
  /\ \A i \in 1..Len(td) :
       /\ Len(rows[i + 1]) = Len(rows[1])
       /\ \A k \in 1..Len(rows[1]) :
            rows[i + 1][k] = IF Has(td[i], rows[1][k]) THEN Get(td[i], rows[1][k]) ELSE ""

\* the key-value pairs of the tokens between two braces
RECURSIVE parsePairs(_)
parsePairs(t) ==
  IF Len(t) < 3 THEN <<>>
  ELSE <<<<t[1], t[3]>>>> \o parsePairs(SubSeq(t, 4, Len(t)))

\* the objects of the tokens between the brackets
RECURSIVE parseObjects(_)
parseObjects(t) ==
  IF Len(t) = 0 \/ t[1] # "{" THEN <<>>
  ELSE LET close == CHOOSE i \in 1..Len(t) :
                      t[i] = "}" /\ \A j \in 1..(i - 1) : t[j] # "}"
       IN  <<parsePairs(SubSeq(t, 2, close - 1))>>
           \o parseObjects(SubSeq(t, close + 1, Len(t)))

\* JSON.parse of the tokens of an array of objects
parse(t) == parseObjects(SubSeq(t, 2, Len(t) - 1))

\* C18: whatever edits and deletes came before, Download CSV writes a header
\* row that is columns plus id and one row per record now in tableData, in
\* order, with the values now committed; Download JSON writes every field of
\* every record now in tableData, in order.
C18_ExportsCurrentTable ==
  [][/\ DownloadCSVClick =>
          /\ output'.kind = "download"
          /\ output'.name = "results.csv"
          /\ IsCsvOf(output'.content, tableData)
     /\ DownloadJSONClick =>
          /\ output'.kind = "download"
          /\ output'.name = "results.json"
          /\ parse(output'.content) = tableData]_vars

\* a CSV file has been written of a table that has lost a record of the
\* installed array and holds an edited value
C18_Witness ==
  /\ view = "ResultsTable"
  /\ output.kind = "download"
  /\ output.name = "results.csv"
  /\ Len(tableData) = 2
  /\ Len(initialData(locState)) = 3
  /\ Len(output.content) = 3
  /\ Get(tableData[2], "event") = "x"
  /\ output.content[3] = <<Get(tableData[2], "id"), "x">>

\* C19: in every reachable state columns is the field names, in order and
\* without id, of the record that is first in tableData now, and the empty
\* list when tableData is empty, whatever the first record was when the array
\* was installed.
C19_ColumnsOfCurrentFirst ==
  IF Len(tableData) = 0
  THEN columns(tableData) = <<>>
  ELSE IsKeysWithoutId(columns(tableData), tableData[1])

\* the first record of the table has a field that the first record of the
\* installed array does not have, and columns names it
C19_Witness ==
  /\ view = "ResultsTable"
  /\ Len(initialData(locState)) >= 2
  /\ Len(tableData) >= 1
  /\ ~Has(initialData(locState)[1], "time")
  /\ Has(tableData[1], "time")
  /\ columns(tableData) = <<"event", "time">>

NoMatchingId ==
  \A i \in 1..Len(tableData) : Get(tableData[i], "id") # Get(currentEditedRow, "id")

\* C21: handleSaveEdit with a buffer whose id no record of tableData has (the
\* buffer of an edit whose row has gone since, or the empty buffer a commit
\* leaves) changes no record and raises nothing: tableData is unchanged, the
\* handler runs to its end (dialog closed, buffer emptied), no alert is shown
\* and the page, its path and the upload page's error are as before.
C21_CommitWithoutMatchIsNoOp ==
  [][((SaveClick \/ SaveCall) /\ NoMatchingId) =>
       /\ tableData' = tableData
       /\ ~editDialogOpen'
       /\ currentRowToEdit' = <<>>
       /\ currentEditedRow' = <<>>
       /\ output' = NoOutput
       /\ error' = error
       /\ appVars' = appVars]_vars

\* a cancelled edit has left its buffer, and the record it was taken from has
\* been deleted since: the table still has records, none with the buffer's id
C21_Witness ==
  /\ view = "ResultsTable"
  /\ ~ModalOpen
  /\ currentEditedRow # <<>>
  /\ Get(currentEditedRow, "id") \in Ids
  /\ tableData # <<>>
  /\ NoMatchingId
  /\ \E i \in 1..Len(initialData(locState)) :
       Get(initialData(locState)[i], "id") = Get(currentEditedRow, "id")

\* the ids of the records of a table, in its order
idsOf(td) == [i \in 1..Len(td) |-> Get(td[i], "id")]

\* a is b with some of its elements left out
RECURSIVE IsSubsequence(_, _)
IsSubsequence(a, b) ==
  IF a = <<>> THEN TRUE
  ELSE IF b = <<>> THEN FALSE
  ELSE IF Head(a) = Head(b) THEN IsSubsequence(Tail(a), Tail(b))
  ELSE IsSubsequence(a, Tail(b))

Distinct(q) == \A i, j \in 1..Len(q) : q[i] = q[j] => i = j

\* the array the table was last initialized with: the one the location carries
Installed == IF view = "ResultsTable" THEN initialData(locState) ELSE <<>>

\* a step of edit (commit), delete or clear
Edits ==
  \/ SaveClick
  \/ SaveCall
  \/ handleConfirmDelete
  \/ \E c \in BOOLEAN : handleTableWiseDelete(c)

\* C22: records enter tableData only by initialization: in every reachable
\* state the ids of tableData, in order, are a subsequence of the ids of the
\* array last installed, and are pairwise distinct when those are; a commit, a
\* delete and a clear leave a subsequence of the ids the table had, so they add
\* no record, change no id and reorder nothing.
C22_OnlyInitializeAddsRecords ==
  /\ [](tableData # <<>> =>
          /\ IsSubsequence(idsOf(tableData), idsOf(Installed))
          /\ Distinct(idsOf(Installed)) => Distinct(idsOf(tableData)))
  /\ [][(tableData' # tableData /\ Edits) =>
          IsSubsequence(idsOf(tableData'), idsOf(tableData))]_vars

\* of three installed records the first and the last remain, and the first
\* has been edited: its id is still the installed one
C22_Witness ==
  /\ view = "ResultsTable"
  /\ ~ModalOpen
  /\ Len(Installed) = 3
  /\ Distinct(idsOf(Installed))
  /\ idsOf(tableData) = <<idsOf(Installed)[1], idsOf(Installed)[3]>>
  /\ tableData[1] # Installed[1]
  /\ tableData[2] = Installed[3]

\* the files the three slots hold
slotFiles == [slot \in Slots |-> SlotFile(slot)]

\* C23: the slots are independent. A selection into a slot (accepted or
\* rejected) and a Remove on a slot leave the files of the other two slots as
\* they were; a failed submission (missing file, service error, network
\* failure, malformed answer) leaves the files of all three slots as they were.
C23_SlotsIndependent ==
  [][view = "FileUpload" =>
       /\ \A slot \in Slots :
            ((\E file \in Files \cup {NoFile} : FileInputChange(slot, file))
               \/ RemoveClick(slot)) =>
              \A other \in Slots \ {slot} : SlotFile(other)' = SlotFile(other)
       /\ \A live \in BOOLEAN, resp \in Failures :
            Answer(live, resp) => slotFiles' = slotFiles
       /\ (SubmitCall /\ sofFile = NoFile) => slotFiles' = slotFiles]_vars

====
